---- MODULE Spec2Model ----
(***************************************************************************)
(* Student Performance Analysis (src/app.py): the CSV import of            *)
(* init_database, seed_default_data, the admin handlers that create        *)
(* teachers and assign them to a (grade, section), teacher_add_student     *)
(* and the access check check_teacher_access, over the three tables        *)
(* users, teacher_section_map and students.                                *)
(*                                                                         *)
(* Numbers are integers: attendance_percent in hundredths (85.50 is 8550), *)
(* a score in thousandths of a point (85.5 is 85500), so that round(x, 2)  *)
(* is a conversion and not the identity.  A student_id is a sequence of    *)
(* one-character strings, so that ordering, prefix test, parsing and       *)
(* formatting are computed and not assumed.  The tables hold committed data only: a       *)
(* handler computes the rows it writes in a working copy, and the working  *)
(* copy becomes the table at conn.commit().  `reqs` holds the              *)
(* teacher_add_student requests that are served statement by statement,    *)
(* each on a connection of its own.                                        *)
(***************************************************************************)
EXTENDS Integers, Sequences, FiniteSets, TLC

VARIABLES db_exists, users, tsm, students, rng, adds, imported, last, reqs

vars == <<db_exists, users, tsm, students, rng, adds, imported, last, reqs>>

(***************************************************************************)
(* Bounds of the model.                                                    *)
(***************************************************************************)
MaxTeachers == 1      \* user names admin_add_teacher can create
MaxAdds == 2          \* teacher_add_student calls that reach the INSERT
MaxFailAt == 2        \* the INSERT of an import a storage failure can hit
MaxColLen == 3        \* characters of a raw column name
MaxRequests == 2      \* teacher_add_student requests served concurrently

(***************************************************************************)
(* Program constants.                                                      *)
(***************************************************************************)
SectionCapacity == 60
DefaultTotalDays == 200
SeedStudentAccounts == 5

Subjects == <<"math", "reading", "writing", "science", "social_science", "computer_science">>
Exams == <<"unit_test", "midterm", "final">>

name_list == <<"Aarav Singh", "Kavya Khan", "Avni Mehta", "Priya Ahuja", "Ananya Jain",
    "Rahul Verma", "Aarav Gupta", "Ishaan Khan", "Saanvi Roy", "Aarav Ahuja",
    "Ishaan Ahuja", "Rahul Khan", "Riya Jain", "Krishna Sharma", "Yash Nair",
    "Siddharth Kulkarni", "Neha Singh", "Avni Reddy", "Yash Das", "Arjun Gupta",
    "Pooja Mehta", "Nikhil Chatterjee", "Vikram Singh", "Simran Verma", "Tanvi Bose",
    "Sakshi Mehta", "Naina Joshi", "Ananya Ahuja", "Meera Roy", "Harsh Chatterjee",
    "Shreya Reddy", "Siddharth Gupta", "Aditi Khan", "Yash Patel", "Ananya Khan",
    "Ira Mehta", "Pooja Singh", "Riya Chatterjee", "Diya Chatterjee", "Nikhil Reddy",
    "Priya Singh", "Siddharth Gupta T.", "Zara Nair", "Sakshi Khan", "Diya Bose",
    "Pooja Singh U.", "Siddharth Ahuja", "Kavya Das", "Zara Mehta">>

(***************************************************************************)
(* Strings as sequences of characters, in byte order.                      *)
(***************************************************************************)
Alphabet == <<"0", "1", "2", "3", "4", "5", "6", "7", "8", "9", "S", "T">>

Rank(c) == CHOOSE i \in 1..Len(Alphabet) : Alphabet[i] = c

IsDigit(c) == Rank(c) <= 10

Min2(a, b) == IF a < b THEN a ELSE b

\* a < b under SQLite's BINARY collation
RECURSIVE StrLess(_, _)
StrLess(a, b) ==
    IF a = <<>> THEN b # <<>>
    ELSE IF b = <<>> THEN FALSE
    ELSE IF a[1] = b[1] THEN StrLess(Tail(a), Tail(b))
    ELSE Rank(a[1]) < Rank(b[1])

RECURSIVE Digits(_)
Digits(n) == IF n < 10 THEN <<Alphabet[n + 1]>> ELSE Append(Digits(n \div 10), Alphabet[(n % 10) + 1])

RECURSIVE PadLeft(_, _)
PadLeft(s, w) == IF Len(s) >= w THEN s ELSE PadLeft(<<"0">> \o s, w)

\* f'S{n:04d}'
FormatId(n) == <<"S">> \o PadLeft(Digits(n), 4)

RECURSIVE ParseNat(_)
ParseNat(s) == IF s = <<>> THEN 0 ELSE 10 * ParseNat(SubSeq(s, 1, Len(s) - 1)) + (Rank(s[Len(s)]) - 1)

\* int(s) succeeds
IsNatString(s) == s # <<>> /\ \A i \in 1..Len(s) : IsDigit(s[i])

(***************************************************************************)
(* standardize_column_name, over names of the characters ColumnChars: a    *)
(* lower-case and an upper-case letter, a digit, the underscore, the two   *)
(* separators [/\s] and a character that is none of these.                 *)
(***************************************************************************)
ColumnChars == {"a", "A", "1", "_", " ", "/", "$"}

RECURSIVE SkipWhile(_, _)
SkipWhile(s, cs) == IF s # <<>> /\ s[1] \in cs THEN SkipWhile(Tail(s), cs) ELSE s

\* re.sub(cs+, '_', col): every maximal run of characters of cs becomes '_'
RECURSIVE SubRuns(_, _)
SubRuns(s, cs) ==
    IF s = <<>> THEN <<>>
    ELSE IF s[1] \in cs THEN <<"_">> \o SubRuns(SkipWhile(s, cs), cs)
    ELSE <<s[1]>> \o SubRuns(Tail(s), cs)

\* col.lower()
Lower(s) == [i \in 1..Len(s) |-> IF s[i] = "A" THEN "a" ELSE s[i]]

\* re.sub(r'[^a-z0-9_]', '', col)
RemoveOthers(s) ==
    LET Keep(c) == c \in {"a", "1", "_"}
    IN  SelectSeq(s, Keep)

RECURSIVE StripRight(_, _)
StripRight(s, cs) ==
    IF s # <<>> /\ s[Len(s)] \in cs THEN StripRight(SubSeq(s, 1, Len(s) - 1), cs) ELSE s

\* col.strip(chars)
Strip(s, cs) == StripRight(SkipWhile(s, cs), cs)

\* the function without its last statement, col.strip('_')
standardize_column_name_unstripped(col) ==
    SubRuns(RemoveOthers(Lower(SubRuns(col, {"/", " "}))), {"_"})

standardize_column_name(col) ==
    Strip(SubRuns(RemoveOthers(Lower(SubRuns(col, {"/", " "}))), {"_"}), {"_"})

(***************************************************************************)
(* The module-level generator `random`: a deterministic sequence from the  *)
(* seed, one step per draw.                                                *)
(***************************************************************************)
random_seed == 42

RngStep(r) == (r * 25173 + 13849) % 65536

\* random.randint(lo, hi) drawn in state r: the value
RandInt(r, lo, hi) == lo + ((RngStep(r) \div 16) % (hi - lo + 1))

\* random.choice(seq) drawn in state r
Choice(r, seq) == seq[RandInt(r, 1, Len(seq))]

(***************************************************************************)
(* A cell of the data frame: missing (NaN), a parseable number, a string,  *)
(* or text that int()/float() rejects.                                     *)
(***************************************************************************)
NA == [k |-> "na"]
Num(n) == [k |-> "num", v |-> n]
Str(s) == [k |-> "str", v |-> s]
Bad == [k |-> "bad"]

\* a numeric column: the value, or the draw when missing; int()/float()
\* raises ValueError on text
NumOrDraw(cell, r, lo, hi) ==
    IF cell.k = "na" THEN [ok |-> TRUE, v |-> RandInt(r, lo, hi), rng |-> RngStep(r)]
    ELSE IF cell.k = "num" THEN [ok |-> TRUE, v |-> cell.v, rng |-> r]
    ELSE [ok |-> FALSE, v |-> 0, rng |-> r]

\* a text column: the value, or random.choice when missing
StrOrChoice(cell, r, seq) ==
    IF cell.k = "str" THEN [v |-> cell.v, rng |-> r]
    ELSE [v |-> Choice(r, seq), rng |-> RngStep(r)]

\* int(x) of the real number num/den: truncation toward zero
TruncDiv(num, den) == IF num >= 0 THEN num \div den ELSE -((-num) \div den)

\* round(num/den) to the nearest integer, ties to even
RoundDiv(num, den) ==
    LET q == num \div den
        rem == num % den
    IN  IF 2 * rem < den THEN q
        ELSE IF 2 * rem > den THEN q + 1
        ELSE IF q % 2 = 0 THEN q ELSE q + 1

\* a score of one point
Point == 1000

\* round(x, 2) of a score x
Round2(x) == 10 * RoundDiv(x, 10)

\* max(0, min(100, x))
Clamp(x) == IF x < 0 THEN 0 ELSE IF x > 100 * Point THEN 100 * Point ELSE x

\* the tier of the average total/n
PerformanceLevel(total, n) ==
    IF total >= 80 * Point * n THEN "Excellent"
    ELSE IF total >= 65 * Point * n THEN "Good"
    ELSE IF total >= 50 * Point * n THEN "Average"
    ELSE "Needs Improvement"

RECURSIVE SumSeq(_)
SumSeq(s) == IF s = <<>> THEN 0 ELSE s[1] + SumSeq(Tail(s))

\* one exam score of a subject: verbatim when present, base + noise otherwise
ExamScore(cell, base, r) ==
    IF cell.k = "na"
    THEN [ok |-> TRUE, v |-> Round2(Clamp(base + 10 * RandInt(r, -1000, 1000))), rng |-> RngStep(r)]
    ELSE IF cell.k = "num" THEN [ok |-> TRUE, v |-> cell.v, rng |-> r]
    ELSE [ok |-> FALSE, v |-> 0, rng |-> r]

\* one more exam score of subject s appended to a = [ok, rng, base, v];
\* nothing after an exception
PutExam(a, cell) ==
    IF ~a.ok THEN a
    ELSE LET Put(x) == [ok |-> x.ok, rng |-> x.rng, base |-> a.base,
                        v |-> IF x.ok THEN Append(a.v, x.v) ELSE a.v]
         IN  Put(ExamScore(cell, a.base, a.rng))

\* the three exam scores of subject number s of a row
SubjectScores(row, s, r) ==
    LET Start(b) == [ok |-> b.ok, rng |-> b.rng,
                     base |-> IF row.base[s].k = "na" THEN Point * b.v ELSE b.v,
                     v |-> <<>>]
        a0 == Start(NumOrDraw(row.base[s], r, 30, 100))
        a1 == PutExam(a0, row.exam[s][1])
        a2 == PutExam(a1, row.exam[s][2])
    IN  PutExam(a2, row.exam[s][3])

\* exam_scores of a row: subjects s..6 appended, in order, to a = [ok, rng, v]
RECURSIVE ExamScores(_, _, _)
ExamScores(row, s, a) ==
    IF s > Len(Subjects) \/ ~a.ok THEN a
    ELSE LET Put(x) == [ok |-> x.ok, rng |-> x.rng,
                        v |-> IF x.ok THEN Append(a.v, x.v) ELSE a.v]
         IN  ExamScores(row, s + 1, Put(SubjectScores(row, s, a.rng)))

\* The student_record of a row is built field by field in a = [ok, rng, rec]:
\* ok is FALSE from the statement that raised on, rng is the generator state.
\* A numeric column:
PutNum(a, field, cell, lo, hi) ==
    IF ~a.ok THEN a
    ELSE LET Put(x) == [ok |-> x.ok, rng |-> x.rng,
                        rec |-> IF x.ok THEN [a.rec EXCEPT ![field] = x.v] ELSE a.rec]
         IN  Put(NumOrDraw(cell, a.rng, lo, hi))

\* a text column
PutStr(a, field, cell, seq) ==
    IF ~a.ok THEN a
    ELSE LET Put(x) == [ok |-> TRUE, rng |-> x.rng, rec |-> [a.rec EXCEPT ![field] = x.v]]
         IN  Put(StrOrChoice(cell, a.rng, seq))

\* total_days, days_present = int(attendance_percent / 100 * total_days) and
\* days_absent
PutDays(a, cell) ==
    IF ~a.ok THEN a
    ELSE IF cell.k \notin {"na", "num"} THEN [a EXCEPT !.ok = FALSE]
    ELSE LET td == IF cell.k = "na" THEN DefaultTotalDays ELSE cell.v
             dp == TruncDiv(a.rec.attendance_percent * td, 10000)
         IN  [a EXCEPT !.rec.total_days = td, !.rec.days_present = dp,
                       !.rec.days_absent = td - dp]

\* exam_scores and the final_* fields computed from the six final scores;
\* final_average_score is kept in sixths of a thousandth, so that total / 6
\* is the integer total
PutScores(a, row) ==
    IF ~a.ok THEN a
    ELSE LET Put(sc) ==
                 LET total == SumSeq([s \in 1..Len(Subjects) |-> sc.v[s][3]])
                 IN  [ok |-> sc.ok, rng |-> sc.rng,
                      rec |-> IF sc.ok
                              THEN [a.rec EXCEPT
                                       !.exam_scores = sc.v,
                                       !.final_total_score = Round2(total),
                                       !.final_average_score = 60 * RoundDiv(total, 60),
                                       !.final_performance_level = PerformanceLevel(total, Len(Subjects))]
                              ELSE a.rec]
         IN  Put(ExamScores(row, 1, [ok |-> TRUE, rng |-> a.rng, v |-> <<>>]))

\* the body of the loop over df.iterrows(): the student_record of row idx
\* (0-based), or the exception that ends the import (ok = FALSE)
SynthRow(row, idx, seen, r0) ==
    LET fallback == FormatId(idx + 1)
        id0 == IF row.student_id.k = "str" /\ row.student_id.v # <<>> THEN row.student_id.v ELSE fallback
        a0 == [ok |-> TRUE, rng |-> r0,
               rec |-> [student_id |-> IF id0 \in seen THEN fallback ELSE id0,
                        student_name |-> IF row.student_name.k = "str" THEN row.student_name.v
                                         ELSE name_list[(idx % Len(name_list)) + 1],
                        grade_level |-> 0, section |-> "", gender |-> "",
                        race_ethnicity |-> "", parental_education |-> "",
                        lunch |-> "", test_prep |-> "",
                        attendance_percent |-> 0, days_present |-> 0, days_absent |-> 0,
                        total_days |-> 0, exam_scores |-> <<>>,
                        final_total_score |-> 0, final_average_score |-> 0,
                        final_performance_level |-> ""]]
        a1 == PutNum(a0, "grade_level", row.grade_level, 9, 12)
        a2 == PutStr(a1, "section", row.section, <<"A", "B", "C", "D">>)
        a3 == PutStr(a2, "gender", row.gender, <<"male", "female">>)
        a4 == PutStr(a3, "race_ethnicity", row.race_ethnicity,
                     <<"group A", "group B", "group C", "group D", "group E">>)
        a5 == PutStr(a4, "parental_education", row.parental_education,
                     <<"high school", "some high school", "some college",
                       "associate's degree", "bachelor's degree", "master's degree">>)
        a6 == PutStr(a5, "lunch", row.lunch, <<"standard", "free/reduced">>)
        a7 == PutStr(a6, "test_prep", row.test_prep, <<"none", "completed">>)
        a8 == PutNum(a7, "attendance_percent", row.attendance_percent, 6000, 10000)
        a9 == PutDays(a8, row.total_days)
    IN  PutScores(a9, row)

\* the loop over df.iterrows() for rows lo..hi (1-based) continued from
\* a = [ok, rng, seen, data]: students_data so far, the identifiers seen and
\* the generator state; ok = FALSE once a row raised.  The range is
\* evaluated in halves, the second half from what the first one leaves.
RECURSIVE SynthRows(_, _, _, _)
SynthRows(df, lo, hi, a) ==
    IF lo > hi \/ ~a.ok THEN a
    ELSE IF lo = hi
    THEN LET Put(one) ==
                 IF one.ok
                 THEN [ok |-> TRUE, rng |-> one.rng,
                       seen |-> a.seen \cup {one.rec.student_id},
                       data |-> Append(a.data, one.rec)]
                 ELSE [a EXCEPT !.ok = FALSE, !.rng = one.rng]
         IN  Put(SynthRow(df[lo], lo - 1, a.seen, a.rng))
    ELSE SynthRows(df, ((lo + hi) \div 2) + 1, hi, SynthRows(df, lo, (lo + hi) \div 2, a))

(***************************************************************************)
(* The data sets the CSV file can hold, after df.columns is standardized.  *)
(***************************************************************************)
BlankRow ==
    [student_id |-> NA, student_name |-> NA, grade_level |-> NA, section |-> NA,
     gender |-> NA, race_ethnicity |-> NA, parental_education |-> NA,
     lunch |-> NA, test_prep |-> NA, attendance_percent |-> NA, total_days |-> NA,
     base |-> [s \in 1..Len(Subjects) |-> NA],
     exam |-> [s \in 1..Len(Subjects) |-> [e \in 1..Len(Exams) |-> NA]]]

\* a complete row of grade 9, section A: only the identifier is left to the
\* import
RowOf9A ==
    [student_id |-> NA, student_name |-> Str("Ira Mehta"), grade_level |-> Num(9), section |-> Str("A"),
     gender |-> Str("female"), race_ethnicity |-> Str("group B"),
     parental_education |-> Str("some college"), lunch |-> Str("standard"),
     test_prep |-> Str("none"), attendance_percent |-> Num(9125), total_days |-> Num(200),
     base |-> [s \in 1..Len(Subjects) |-> Num(60000 + 5000 * s)],
     exam |-> [s \in 1..Len(Subjects) |-> [e \in 1..Len(Exams) |-> Num(60000 + 5000 * s + 1000 * e)]]]

\* a row with real data: its own identifier, the base scores of the public
\* data set and final scores for two subjects
RowGiven ==
    [BlankRow EXCEPT !.student_id = Str(<<"T", "1">>),
                     !.student_name = Str("Meera Roy"),
                     !.grade_level = Num(10), !.section = Str("B"),
                     !.gender = Str("female"),
                     !.attendance_percent = Num(7050), !.total_days = Num(180),
                     !.base = [s \in 1..Len(Subjects) |-> IF s <= 3 THEN Num(72000) ELSE NA],
                     !.exam = [s \in 1..Len(Subjects) |->
                                  [e \in 1..Len(Exams) |-> IF s <= 2 /\ e = 3 THEN Num(79990) ELSE NA]]]

df_header_only == <<>>

df_mixed == <<RowGiven, BlankRow, [BlankRow EXCEPT !.student_id = Str(<<"T", "1">>),
                                                   !.grade_level = Num(9), !.section = Str("A")]>>

df_unparseable == <<BlankRow, [BlankRow EXCEPT !.grade_level = Bad], RowGiven>>

\* n rows of grade 9, section A; row 0 carries the identifier `first` when
\* it is not empty
SectionRows(n, first) ==
    [i \in 1..n |-> IF i = 1 /\ first # <<>> THEN [RowOf9A EXCEPT !.student_id = Str(first)] ELSE RowOf9A]

df_section_58 == SectionRows(SectionCapacity - 2, <<"T", "1">>)

df_section_59 == SectionRows(SectionCapacity - 1, <<>>)

\* complete rows with final scores next to a tier boundary (five of 80.0
\* and one of 79.98), and with three decimals in grade 0
df_boundary ==
    <<[RowOf9A EXCEPT !.exam = [s \in 1..Len(Subjects) |->
                                   [e \in 1..Len(Exams) |-> Num(IF s = 1 THEN 79980 ELSE 80000)]]],
      [RowOf9A EXCEPT !.grade_level = Num(0),
                      !.exam = [s \in 1..Len(Subjects) |-> [e \in 1..Len(Exams) |-> Num(70001)]]]>>

\* complete rows: one with the identifier S0002, one without identifier
\* right after it, and one with a math final score of 0
df_collision ==
    <<[RowOf9A EXCEPT !.student_id = Str(<<"S", "0", "0", "0", "2">>)],
      RowOf9A,
      [RowOf9A EXCEPT !.exam[1][3] = Num(0)]>>

Datasets == <<df_header_only, df_mixed, df_unparseable, df_section_58, df_section_59, df_boundary,
              df_collision>>

(***************************************************************************)
(* The store.  users and teacher_section_map are sequences: the id of a    *)
(* row (INTEGER PRIMARY KEY AUTOINCREMENT, rows are never deleted) is its  *)
(* position.  students is the set of its rows, student_id being the key.   *)
(***************************************************************************)
UserRow(username, password, role, student_id) ==
    [username |-> username, password |-> password, role |-> role,
     student_id |-> student_id, is_active |-> 1]

MapRow(t, g, s, a) ==
    [teacher_user_id |-> t, grade_level |-> g, section |-> s, is_active |-> a]

\* SELECT id FROM users WHERE username = ?   (0: no row)
UserIdOf(us, username) ==
    IF \E i \in 1..Len(us) : us[i].username = username
    THEN CHOOSE i \in 1..Len(us) : us[i].username = username
    ELSE 0

\* INSERT OR IGNORE INTO users: username is UNIQUE
users_insert_or_ignore(us, row) ==
    IF UserIdOf(us, row.username) # 0 THEN us ELSE Append(us, row)

\* INSERT INTO teacher_section_map under UNIQUE(grade_level, section)
tsm_insert(m, row) ==
    IF \E i \in 1..Len(m) : m[i].grade_level = row.grade_level /\ m[i].section = row.section
    THEN [ok |-> FALSE, tsm |-> m]
    ELSE [ok |-> TRUE, tsm |-> Append(m, row)]

\* INSERT OR REPLACE INTO students: the row with the same key is replaced
students_insert_or_replace(st, rec) ==
    {x \in st : x.student_id # rec.student_id} \cup {rec}

\* a connection that goes away (conn.close(), or the last reference to it
\* dropped) with statements executed and no commit: the store keeps what was
\* committed, the working copy is discarded
uncommitted_close_keeps(committed, working) == working

uncommitted_close(committed, working) == committed

\* the student_id values in index order, as the covering index scan of
\* SELECT student_id FROM students LIMIT n returns them
RECURSIVE FirstIds(_, _)
FirstIds(ids, n) ==
    IF n = 0 \/ ids = {} THEN <<>>
    ELSE LET lo == CHOOSE x \in ids : \A y \in ids : x = y \/ StrLess(x, y)
         IN  <<lo>> \o FirstIds(ids \ {lo}, n - 1)

StudentUsernames == <<"student1", "student2", "student3", "student4", "student5">>

RECURSIVE SeedStudentUsers(_, _, _)
SeedStudentUsers(us, ids, i) ==
    IF i > Len(ids) THEN us
    ELSE SeedStudentUsers(
             users_insert_or_ignore(us, UserRow(StudentUsernames[i], "student123", "student", Str(ids[i]))),
             ids, i + 1)

\* seed_default_data as one transaction over (users, teacher_section_map)
seed_default_data_tx(us0, m0, st) ==
    LET us1 == users_insert_or_ignore(us0, UserRow("admin1", "admin123", "admin", NA))
        us2 == users_insert_or_ignore(us1, UserRow("teacher1", "teacher123", "teacher", NA))
        teacher1 == UserIdOf(us2, "teacher1")
        us3 == SeedStudentUsers(us2, FirstIds({x.student_id : x \in st}, SeedStudentAccounts), 1)
        existing == \E i \in 1..Len(m0) : m0[i].teacher_user_id = teacher1
        section_taken == \E i \in 1..Len(m0) : m0[i].grade_level = 9 /\ m0[i].section = "A"
        m1 == IF teacher1 # 0 /\ ~existing /\ ~section_taken
              THEN tsm_insert(m0, MapRow(teacher1, 9, "A", 1)).tsm
              ELSE m0
    IN  [users |-> us3, tsm |-> m1]

(***************************************************************************)
(* History, not program state: `last` is the operation that ran last with  *)
(* its inputs and outcome (`arg`: the argument of a function, `resp`: what *)
(* a function returns or a read-only handler renders; `conns`: the         *)
(* connections it opened that are open when it has returned; `again`: a    *)
(* forced import that follows a forced                                     *)
(* import of the same data set), `imported` whether an import has ever     *)
(* committed, `adds` how many teacher_add_student calls reached the INSERT.*)
(***************************************************************************)
NoOp == [op |-> "none", out |-> "", user |-> 0, grade |-> 0, section |-> "",
         force |-> FALSE, csv |-> "", df |-> 0, failAt |-> 0, again |-> FALSE,
         name |-> "", att |-> "", arg |-> <<>>, resp |-> <<>>, conns |-> 0]

\* the connections an operation can leave open when it returns with
\* outcome out.  The exits named here have no conn.close(): the connection
\* is closed when the runtime finalizes the object, at the return or later.
unclosed(op, out) ==
    IF \/ op = "admin_add_teacher" /\ out \in {"username_exists", "error"}
       \/ op = "admin_assign_teacher" /\ out = "error"
       \/ op = "teacher_add_student" /\ out = "error"
    THEN {0, 1}
    ELSE {0}

\* a teacher_add_student request in flight: where it is (pc) and its locals
IdleRequest ==
    [pc |-> "idle", user |-> 0, teacher_grade |-> 0, teacher_section |-> "",
     student_name |-> "", attendance |-> NA, student_id |-> <<>>]

NoRequests == [i \in 1..MaxRequests |-> IdleRequest]

Init ==
    /\ db_exists = FALSE
    /\ users = <<>>
    /\ tsm = <<>>
    /\ students = {}
    /\ rng = random_seed
    /\ adds = 0
    /\ imported = FALSE
    /\ last = NoOp
    /\ reqs = NoRequests

seed_default_data ==
    /\ db_exists
    /\ LET r == seed_default_data_tx(users, tsm, students)
       IN  /\ users' = r.users
           /\ tsm' = r.tsm
    /\ last' = [NoOp EXCEPT !.op = "seed_default_data", !.out = "ok"]
    /\ UNCHANGED <<db_exists, students, rng, adds, imported, reqs>>

(***************************************************************************)
(* init_database: the CSV import at process start.                         *)
(***************************************************************************)
\* the first n INSERT OR REPLACE statements of the loop over students_data
InsertAll(st, data, n) ==
    {x \in st : \A i \in 1..n : data[i].student_id # x.student_id}
        \cup {data[i] : i \in {j \in 1..n : \A k \in (j + 1)..n : data[k].student_id # data[j].student_id}}

\* the import without random.seed: it draws from whatever state the
\* generator is in
Synthesized_unseeded(df) ==
    SynthRows(df, 1, Len(df), [ok |-> TRUE, rng |-> rng, seen |-> {}, data |-> <<>>])

\* students_data of a data frame, synthesized right after random.seed
Synthesized(df) ==
    SynthRows(df, 1, Len(df), [ok |-> TRUE, rng |-> random_seed, seen |-> {}, data |-> <<>>])

data_header_only == Synthesized(df_header_only)

data_mixed == Synthesized(df_mixed)

data_unparseable == Synthesized(df_unparseable)

data_section_58 == Synthesized(df_section_58)

data_section_59 == Synthesized(df_section_59)

data_boundary == Synthesized(df_boundary)

data_collision == Synthesized(df_collision)

\* students_data of data set number d
students_data(d) ==
    CASE d = 1 -> data_header_only
      [] d = 2 -> data_mixed
      [] d = 3 -> data_unparseable
      [] d = 4 -> data_section_58
      [] d = 5 -> data_section_59
      [] d = 6 -> data_boundary
      [] d = 7 -> data_collision

\* the write phase of the import (DELETE, the INSERTs, commit) over the
\* committed table st0; failAt = k > 0: the k-th INSERT raises
import_tx(st0, data, force, failAt) ==
    LET w0 == IF force THEN {} ELSE st0
    IN  IF data = <<>> THEN [ok |-> TRUE, students |-> st0]
        ELSE IF failAt = 0 THEN [ok |-> TRUE, students |-> InsertAll(w0, data, Len(data))]
        ELSE [ok |-> FALSE, students |-> uncommitted_close(st0, InsertAll(w0, data, failAt - 1))]

CsvStates == {"missing", "unreadable", "ok"}

skip_import_never(exists, force) == FALSE

\* line 177: the database file exists and FORCE_REIMPORT is not set
skip_import(exists, force) == exists /\ ~force

\* init_database from the write phase on, and seed_default_data at its end:
\* syn is students_data or the exception of the loop over the rows
import_and_seed(force, csv, d, failAt, syn) ==
    LET Seed(r) == users' = r.users /\ tsm' = r.tsm
        Finish(st1, done) ==
            /\ students' = st1
            /\ Seed(seed_default_data_tx(users, tsm, st1))
            /\ rng' = syn.rng
            /\ imported' = (imported \/ done)
            /\ last' = [NoOp EXCEPT !.op = "init_database",
                                    !.out = IF done THEN "imported" ELSE "failed",
                                    !.force = force, !.csv = csv, !.df = d,
                                    !.failAt = failAt,
                                    !.again = /\ done /\ force
                                              /\ last.op = "init_database" /\ last.force
                                              /\ last.out = "imported" /\ last.df = d]
        Write(tx) == Finish(tx.students, tx.ok)
    IN  /\ failAt <= (IF syn.ok THEN Len(syn.data) ELSE 0)
        /\ IF syn.ok
           THEN Write(import_tx(students, syn.data, force, failAt))
           ELSE Finish(students, FALSE)

init_database(force, csv, d, failAt) ==
    IF skip_import(db_exists, force)
    THEN \* lines 177-181: skip the import, migrate, seed
         /\ LET r == seed_default_data_tx(users, tsm, students)
            IN  /\ users' = r.users
                /\ tsm' = r.tsm
         /\ rng' = random_seed
         /\ last' = [NoOp EXCEPT !.op = "init_database", !.out = "skipped",
                                 !.force = force, !.csv = csv]
         /\ UNCHANGED <<db_exists, students, adds, imported, reqs>>
    ELSE /\ db_exists' = TRUE
         /\ UNCHANGED <<adds, reqs>>
         /\ IF csv = "missing"
            THEN \* lines 256-259: close and return, no seed
                 /\ rng' = random_seed
                 /\ last' = [NoOp EXCEPT !.op = "init_database", !.out = "no_csv",
                                         !.force = force, !.csv = csv]
                 /\ UNCHANGED <<users, tsm, students, imported, reqs>>
            ELSE IF csv = "unreadable"
            THEN \* pd.read_csv raises
                 /\ LET r == seed_default_data_tx(users, tsm, students)
                    IN  /\ users' = r.users
                        /\ tsm' = r.tsm
                 /\ rng' = random_seed
                 /\ last' = [NoOp EXCEPT !.op = "init_database", !.out = "failed",
                                         !.force = force, !.csv = csv]
                 /\ UNCHANGED <<students, imported, reqs>>
            ELSE import_and_seed(force, csv, d, failAt, students_data(d))

(***************************************************************************)
(* Access policy.                                                          *)
(***************************************************************************)
\* get_teacher_assignment: the first active row of the teacher, or (None, None)
get_teacher_assignment(m, user_id) ==
    IF \E i \in 1..Len(m) : m[i].teacher_user_id = user_id /\ m[i].is_active = 1
    THEN LET i == CHOOSE i \in 1..Len(m) :
                     /\ m[i].teacher_user_id = user_id /\ m[i].is_active = 1
                     /\ \A j \in 1..(i - 1) : ~(m[j].teacher_user_id = user_id /\ m[j].is_active = 1)
         IN  [k |-> "row", grade_level |-> m[i].grade_level, section |-> m[i].section]
    ELSE [k |-> "none", grade_level |-> 0, section |-> ""]

\* `not teacher_grade or not teacher_section` on the result above
NoAssignment(a) == a.k = "none" \/ a.grade_level = 0 \/ a.section = ""

check_teacher_access(role, student_grade, student_section, user_id, m) ==
    IF role = "admin" THEN TRUE
    ELSE IF role # "teacher" THEN FALSE
    ELSE LET a == get_teacher_assignment(m, user_id)
         IN  IF NoAssignment(a) THEN FALSE
             ELSE a.grade_level = student_grade /\ a.section = student_section

\* a request passes login_required and role_required(role)
LoggedIn(u, role) ==
    /\ u \in 1..Len(users)
    /\ users[u].role = role
    /\ users[u].is_active = 1

(***************************************************************************)
(* Admin handlers.                                                         *)
(***************************************************************************)
TeacherNames == <<"teacher2", "teacher3", "teacher4">>

UsernameInputs == {"", "teacher1"} \cup {TeacherNames[i] : i \in 1..MaxTeachers}

GradeInputs == {0, 9}

SectionInputs == {"", "A"}

admin_add_teacher_tx(us0, m0, username, password, grade, section) ==
    IF username = "" \/ password = ""
    THEN [out |-> "required", users |-> us0, tsm |-> m0]
    ELSE IF UserIdOf(us0, username) # 0
    THEN [out |-> "username_exists", users |-> us0, tsm |-> m0]
    ELSE LET us1 == Append(us0, UserRow(username, password, "teacher", NA))
             teacher_user_id == Len(us1)
         IN  IF grade.k # "na" /\ section # ""
             THEN IF grade.k = "bad"
                  THEN [out |-> "error", users |-> uncommitted_close(us0, us1), tsm |-> m0]
                  ELSE IF \E i \in 1..Len(m0) :
                              m0[i].grade_level = grade.v /\ m0[i].section = section
                  THEN [out |-> "section_taken", users |-> us1, tsm |-> m0]
                  ELSE [out |-> "assigned", users |-> us1,
                        tsm |-> tsm_insert(m0, MapRow(teacher_user_id, grade.v, section, 1)).tsm]
             ELSE [out |-> "added", users |-> us1, tsm |-> m0]

admin_add_teacher(username, password, grade, section) ==
    /\ db_exists
    /\ \E a \in 1..Len(users) : LoggedIn(a, "admin")
    /\ LET r == admin_add_teacher_tx(users, tsm, username, password, grade, section)
       IN  /\ users' = r.users
           /\ tsm' = r.tsm
           /\ \E c \in unclosed("admin_add_teacher", r.out) :
                  last' = [NoOp EXCEPT !.op = "admin_add_teacher", !.out = r.out,
                                      !.user = IF r.out \in {"section_taken", "assigned", "added"}
                                               THEN Len(r.users) ELSE 0,
                                      !.grade = IF grade.k = "num" THEN grade.v ELSE 0,
                                      !.section = section, !.conns = c]
    /\ UNCHANGED <<db_exists, students, rng, adds, imported, reqs>>

\* the handler without the availability check, on a table without the
\* UNIQUE(grade_level, section) constraint
admin_assign_teacher_tx_unchecked(m0, t, g, s) ==
    LET upd == [i \in 1..Len(m0) |->
                   IF m0[i].teacher_user_id = t THEN [m0[i] EXCEPT !.is_active = 0] ELSE m0[i]]
    IN  [out |-> "assigned", tsm |-> Append(upd, MapRow(t, g, s, 1))]

\* the handler without the UPDATE that deactivates the teacher's mappings
admin_assign_teacher_tx_keeps_active(m0, t, g, s) ==
    IF \E i \in 1..Len(m0) :
           m0[i].grade_level = g /\ m0[i].section = s /\ m0[i].is_active = 1
    THEN [out |-> "section_taken", tsm |-> m0]
    ELSE LET ins == tsm_insert(m0, MapRow(t, g, s, 1))
         IN  IF ins.ok
             THEN [out |-> "assigned", tsm |-> ins.tsm]
             ELSE [out |-> "error", tsm |-> uncommitted_close(m0, m0)]

admin_assign_teacher_tx(m0, t, g, s) ==
    IF \E i \in 1..Len(m0) :
           m0[i].grade_level = g /\ m0[i].section = s /\ m0[i].is_active = 1
    THEN [out |-> "section_taken", tsm |-> m0]
    ELSE LET upd == [i \in 1..Len(m0) |->
                        IF m0[i].teacher_user_id = t THEN [m0[i] EXCEPT !.is_active = 0] ELSE m0[i]]
             ins == tsm_insert(upd, MapRow(t, g, s, 1))
         IN  IF ins.ok
             THEN [out |-> "assigned", tsm |-> ins.tsm]
             ELSE [out |-> "error", tsm |-> uncommitted_close(m0, upd)]

admin_assign_teacher(t, g, s) ==
    /\ db_exists
    /\ \E a \in 1..Len(users) : LoggedIn(a, "admin")
    /\ LET r == admin_assign_teacher_tx(tsm, t, g, s)
       IN  /\ tsm' = r.tsm
           /\ \E c \in unclosed("admin_assign_teacher", r.out) :
                  last' = [NoOp EXCEPT !.op = "admin_assign_teacher", !.out = r.out,
                                      !.user = t, !.grade = g, !.section = s, !.conns = c]
    /\ UNCHANGED <<db_exists, users, students, rng, adds, imported, reqs>>

(***************************************************************************)
(* teacher_add_student.                                                    *)
(***************************************************************************)
\* get_next_student_id over the committed students table
get_next_student_id(st) ==
    IF st = {} THEN FormatId(1)
    ELSE LET ids == {x.student_id : x \in st}
             last_id == CHOOSE x \in ids : \A y \in ids : x = y \/ StrLess(y, x)
         IN  IF last_id # <<>> /\ last_id[1] = "S" /\ IsNatString(Tail(last_id))
             THEN FormatId(ParseNat(Tail(last_id)) + 1)
             ELSE FormatId(1)

\* the 18 draws round(random.uniform(50, 90), 2), subject by subject
RECURSIVE NewExamScores(_, _)
NewExamScores(s, r) ==
    IF s > Len(Subjects) THEN [v |-> <<>>, rng |-> r]
    ELSE LET r1 == RngStep(r)
             r2 == RngStep(r1)
             r3 == RngStep(r2)
             rest == NewExamScores(s + 1, r3)
         IN  [v |-> <<<<10 * RandInt(r, 5000, 9000), 10 * RandInt(r1, 5000, 9000),
                      10 * RandInt(r2, 5000, 9000)>>>> \o rest.v,
              rng |-> rest.rng]

SectionCount(st, g, s) == Cardinality({x \in st : x.grade_level = g /\ x.section = s})

\* the row teacher_add_student inserts (lines 773-812)
new_student(student_id, student_name, grade, section, attendance, exam_scores) ==
    LET total == SumSeq([s \in 1..Len(Subjects) |-> exam_scores[s][3]])
        dp == TruncDiv(attendance.v * DefaultTotalDays, 10000)
    IN  [student_id |-> student_id,
         student_name |-> student_name,
         grade_level |-> grade,
         section |-> section,
         gender |-> "", race_ethnicity |-> "", parental_education |-> "",
         lunch |-> "", test_prep |-> "",
         attendance_percent |-> attendance.v,
         days_present |-> dp,
         days_absent |-> DefaultTotalDays - dp,
         total_days |-> DefaultTotalDays,
         exam_scores |-> exam_scores,
         final_total_score |-> total,
         final_average_score |-> total,
         final_performance_level |-> PerformanceLevel(total, Len(Subjects))]

\* the POST handler over the committed students table: the outcome, the
\* table and the generator state it leaves
teacher_add_student_tx(st0, m, r, user_id, student_name, attendance) ==
    LET a == get_teacher_assignment(m, user_id)
        student_id == get_next_student_id(st0)
        sc == NewExamScores(1, r)
        rec == new_student(student_id, student_name, a.grade_level, a.section, attendance, sc.v)
    IN  IF NoAssignment(a) THEN [out |-> "no_assignment", students |-> st0, rng |-> r]
        ELSE IF SectionCount(st0, a.grade_level, a.section) >= SectionCapacity
        THEN [out |-> "capacity", students |-> st0, rng |-> r]
        ELSE IF attendance.k # "num" THEN [out |-> "error", students |-> st0, rng |-> r]
        ELSE IF student_name = "" THEN [out |-> "name_required", students |-> st0, rng |-> r]
        ELSE IF \E x \in st0 : x.student_id = student_id
        THEN [out |-> "insert_error", students |-> uncommitted_close(st0, st0), rng |-> sc.rng]
        ELSE [out |-> "added", students |-> st0 \cup {rec}, rng |-> sc.rng]

teacher_add_student(u, student_name, attendance) ==
    /\ db_exists
    /\ LoggedIn(u, "teacher")
    /\ adds < MaxAdds
    /\ LET r == teacher_add_student_tx(students, tsm, rng, u, student_name, attendance)
           a == get_teacher_assignment(tsm, u)
       IN  /\ students' = r.students
           /\ rng' = r.rng
           /\ adds' = IF r.out \in {"added", "insert_error"} THEN adds + 1 ELSE adds
           /\ \E c \in unclosed("teacher_add_student", r.out) :
                  last' = [NoOp EXCEPT !.op = "teacher_add_student", !.out = r.out, !.user = u,
                                      !.grade = a.grade_level, !.section = a.section,
                                      !.name = student_name, !.att = attendance.k, !.conns = c]
    /\ UNCHANGED <<db_exists, users, tsm, imported, reqs>>

(***************************************************************************)
(* teacher_add_student served to several requests at once (the server is   *)
(* threaded and every request opens a connection of its own): the handler  *)
(* in the steps between which another request's statements can run.        *)
(***************************************************************************)
\* a request ends: what it did is the operation that ran last
add_student_ends(i, out, c) ==
    last' = [NoOp EXCEPT !.op = "teacher_add_student", !.out = out, !.user = reqs[i].user,
                        !.grade = reqs[i].teacher_grade, !.section = reqs[i].teacher_section,
                        !.name = reqs[i].student_name, !.att = reqs[i].attendance.k, !.conns = c]

\* lines 735-740: the request arrives and reads the teacher's assignment
add_student_begin(i, u, student_name, attendance) ==
    /\ db_exists
    /\ LoggedIn(u, "teacher")
    /\ reqs[i].pc = "idle"
    /\ ~NoAssignment(get_teacher_assignment(tsm, u))
    /\ reqs' = [reqs EXCEPT ![i] = [IdleRequest EXCEPT
                    !.pc = "count", !.user = u,
                    !.teacher_grade = get_teacher_assignment(tsm, u).grade_level,
                    !.teacher_section = get_teacher_assignment(tsm, u).section,
                    !.student_name = student_name, !.attendance = attendance]]
    /\ UNCHANGED <<db_exists, users, tsm, students, rng, adds, imported, last>>

\* lines 744-770: SELECT COUNT(*), the capacity check and the form checks
add_student_count(i) ==
    /\ reqs[i].pc = "count"
    /\ LET out == IF SectionCount(students, reqs[i].teacher_grade, reqs[i].teacher_section) >= SectionCapacity
                  THEN "capacity"
                  ELSE IF reqs[i].attendance.k # "num" THEN "error"
                  ELSE IF reqs[i].student_name = "" THEN "name_required"
                  ELSE "passed"
       IN  IF out = "passed"
           THEN /\ reqs' = [reqs EXCEPT ![i].pc = "alloc"]
                /\ UNCHANGED last
           ELSE /\ reqs' = [reqs EXCEPT ![i].pc = "done"]
                /\ \E c \in unclosed("teacher_add_student", out) : add_student_ends(i, out, c)
    /\ UNCHANGED <<db_exists, users, tsm, students, rng, adds, imported>>

\* line 772: get_next_student_id() on a connection of its own
add_student_allocate(i) ==
    /\ reqs[i].pc = "alloc"
    /\ reqs' = [reqs EXCEPT ![i].pc = "insert", ![i].student_id = get_next_student_id(students)]
    /\ UNCHANGED <<db_exists, users, tsm, students, rng, adds, imported, last>>

\* lines 773-826: the scores are drawn, the row is inserted and committed; a
\* student_id taken in the meantime fails the INSERT
add_student_insert(i) ==
    /\ reqs[i].pc = "insert"
    /\ LET Put(sc) ==
               /\ rng' = sc.rng
               /\ IF \E x \in students : x.student_id = reqs[i].student_id
                  THEN /\ students' = uncommitted_close(students, students)
                       /\ add_student_ends(i, "insert_error", 0)
                  ELSE /\ students' = students \cup
                              {new_student(reqs[i].student_id, reqs[i].student_name,
                                           reqs[i].teacher_grade, reqs[i].teacher_section,
                                           reqs[i].attendance, sc.v)}
                       /\ add_student_ends(i, "added", 0)
       IN  Put(NewExamScores(1, rng))
    /\ adds' = adds + 1
    /\ reqs' = [reqs EXCEPT ![i].pc = "done"]
    /\ UNCHANGED <<db_exists, users, tsm, imported>>

(***************************************************************************)
(* Read-only handlers: teacher_dashboard and export_students.              *)
(***************************************************************************)
\* the rows of a result set as a list (here by student_id; the handlers
\* below only count, sum and emit them)
fetchall(st) ==
    LET ids == FirstIds({x.student_id : x \in st}, Cardinality(st))
    IN  [i \in 1..Len(ids) |-> CHOOSE x \in st : x.student_id = ids[i]]

\* sum(scores) / len(scores) without the guard: 0/0 on an empty list
Mean_unguarded(scores) == [num |-> SumSeq(scores), den |-> Len(scores)]

\* the number 0 as a fraction
Zero == [num |-> 0, den |-> 1]

\* sum(scores) / len(scores) if scores else 0, as the fraction num/den
Mean(scores) ==
    IF scores = <<>> THEN Zero
    ELSE [num |-> SumSeq(scores), den |-> Len(scores)]

\* the KPIs and graph data of teacher_dashboard over the fetched rows;
\* overall_avg and pass_rate in hundredths
dashboard_stats(rows) ==
    LET n == Len(rows)
        Truthy(x) == x # 0
        pass_count == Cardinality({i \in 1..n : rows[i].final_average_score >= 50 * Point * Len(Subjects)})
    IN  [students |-> rows,
         total_students |-> n,
         overall_avg |-> IF n > 0
                         THEN RoundDiv(SumSeq([i \in 1..n |-> rows[i].final_average_score]), 60 * n)
                         ELSE 0,
         pass_rate |-> IF n > 0 THEN RoundDiv(10000 * pass_count, n) ELSE 0,
         at_risk_count |-> IF n > 0
                           THEN Cardinality({i \in 1..n :
                                    \/ rows[i].final_average_score < 50 * Point * Len(Subjects)
                                    \/ rows[i].attendance_percent < 7500})
                           ELSE 0,
         subject_avg_scores |->
             [s \in 1..Len(Subjects) |->
                 Mean(SelectSeq([i \in 1..n |-> rows[i].exam_scores[s][Len(Exams)]], Truthy))],
         exam_avg |->
             [e \in 1..Len(Exams) |->
                 Mean([k \in 1..(Len(Subjects) * n) |->
                          rows[((k - 1) % n) + 1].exam_scores[((k - 1) \div n) + 1][e]])]]

\* teacher_dashboard for teacher user_id with the filters gender and
\* attendance_min of the query string
teacher_dashboard_view(st, m, user_id, gender, attendance_min) ==
    LET a == get_teacher_assignment(m, user_id)
        Render(stats) == [out |-> "ok", no_assignment |-> FALSE, stats |-> stats]
    IN  IF NoAssignment(a)
        THEN [out |-> "ok", no_assignment |-> TRUE,
              stats |-> [students |-> <<>>, total_students |-> 0, overall_avg |-> 0, pass_rate |-> 0,
                         at_risk_count |-> 0, subject_avg_scores |-> <<>>,
                         exam_avg |-> [e \in 1..Len(Exams) |-> Zero]]]
        ELSE IF attendance_min.k = "bad"
        THEN \* float(attendance_min) raises
             [out |-> "error", no_assignment |-> FALSE, stats |-> <<>>]
        ELSE Render(dashboard_stats(fetchall(
                 {x \in st : /\ x.grade_level = a.grade_level /\ x.section = a.section
                             /\ gender # "" => x.gender = gender
                             /\ attendance_min.k = "num" => x.attendance_percent >= attendance_min.v})))

teacher_dashboard(u, gender, attendance_min) ==
    /\ db_exists
    /\ LoggedIn(u, "teacher")
    /\ last' = [NoOp EXCEPT !.op = "teacher_dashboard", !.user = u, !.name = gender,
                            !.att = attendance_min.k,
                            !.resp = teacher_dashboard_view(students, tsm, u, gender, attendance_min)]
    /\ UNCHANGED <<db_exists, users, tsm, students, rng, adds, imported, reqs>>

\* the row export_students writes for a student
ExportRow(x) ==
    [student_id |-> x.student_id, student_name |-> x.student_name,
     grade_level |-> x.grade_level, section |-> x.section, gender |-> x.gender,
     attendance_percent |-> x.attendance_percent,
     final_average_score |-> x.final_average_score,
     final_performance_level |-> x.final_performance_level]

\* export_students for a session of user_id with the given role
export_students_view(st, m, role, user_id) ==
    LET a == get_teacher_assignment(m, user_id)
    IN  IF role = "admin" THEN [out |-> "csv", rows |-> {ExportRow(x) : x \in st}]
        ELSE IF role = "teacher"
        THEN IF NoAssignment(a) THEN [out |-> "redirect", rows |-> {}]
             ELSE [out |-> "csv",
                   rows |-> {ExportRow(x) : x \in {y \in st : /\ y.grade_level = a.grade_level
                                                               /\ y.section = a.section}}]
        ELSE [out |-> "redirect", rows |-> {}]

export_students(u) ==
    /\ db_exists
    /\ u \in 1..Len(users)
    /\ users[u].is_active = 1
    /\ last' = [NoOp EXCEPT !.op = "export_students", !.user = u,
                            !.resp = export_students_view(students, tsm, users[u].role, u)]
    /\ UNCHANGED <<db_exists, users, tsm, students, rng, adds, imported, reqs>>

(***************************************************************************)
(* Specifications.                                                         *)
(***************************************************************************)
GradeCells == {NA, Bad} \cup {Num(g) : g \in GradeInputs}

AddTeacher == \E un \in UsernameInputs, pw \in {"", "pw"}, g \in GradeCells, s \in SectionInputs :
                  admin_add_teacher(un, pw, g, s)

AssignTeacher == \E t \in {i \in 1..Len(users) : users[i].role \in {"admin", "teacher"}},
                    g \in GradeInputs, s \in SectionInputs :
                     admin_assign_teacher(t, g, s)

\* a process start with the CSV file holding one of the data sets ds; the
\* data set and the failing INSERT are inputs of the import path only
InitDatabaseWith(ds) ==
    \E force \in BOOLEAN, csv \in CsvStates :
        \E d \in (IF csv = "ok" /\ ~skip_import(db_exists, force) THEN ds ELSE {CHOOSE x \in ds : TRUE}),
           failAt \in (IF csv = "ok" /\ ~skip_import(db_exists, force) THEN 0..MaxFailAt ELSE {0}) :
            init_database(force, csv, d, failAt)

SmallDatasets == {1, 2, 3}

SectionDatasets == {4, 5}

InitDatabase == InitDatabaseWith(SmallDatasets)

InitDatabaseSection == InitDatabaseWith(SectionDatasets)

AddStudent == \E u \in 1..Len(users), nm \in {"", "Zara Das"}, att \in {Num(10000), Num(15000), Bad} :
                  teacher_add_student(u, nm, att)

Next == InitDatabase \/ seed_default_data \/ AddTeacher \/ AssignTeacher \/ AddStudent

Spec == Init /\ [][Next]_vars

\* a fresh database: the first process start found no CSV file
InitFresh ==
    /\ db_exists = TRUE
    /\ users = <<>>
    /\ tsm = <<>>
    /\ students = {}
    /\ rng = random_seed
    /\ adds = 0
    /\ imported = FALSE
    /\ last = [NoOp EXCEPT !.op = "init_database", !.out = "no_csv", !.csv = "missing"]
    /\ reqs = NoRequests

NextAccess == seed_default_data \/ AddTeacher \/ AssignTeacher

SpecAccess == InitFresh /\ [][NextAccess]_vars

NextImport == InitDatabase \/ seed_default_data \/ AddStudent

SpecImport == Init /\ [][NextImport]_vars

\* the same, over the data sets that fill a section
NextSection == InitDatabaseSection \/ seed_default_data \/ AddStudent

SpecSection == Init /\ [][NextSection]_vars

\* the read-only handlers over imported students and changing assignments
\* concurrent additions to a section that start-up has filled to 58 or 59
\* students: the state after init_database imported the file and seeded
InitRace ==
    \E d \in SectionDatasets :
        /\ db_exists = TRUE
        /\ students = import_tx({}, students_data(d).data, FALSE, 0).students
        /\ users = seed_default_data_tx(<<>>, <<>>, students).users
        /\ tsm = seed_default_data_tx(<<>>, <<>>, students).tsm
        /\ rng = students_data(d).rng
        /\ adds = 0
        /\ imported = TRUE
        /\ last = [NoOp EXCEPT !.op = "init_database", !.out = "imported", !.csv = "ok", !.df = d]
        /\ reqs = NoRequests

AddStudentBegin == \E i \in 1..MaxRequests, u \in 1..Len(users), nm \in {"", "Zara Das"}, att \in {Num(10000), Bad} :
    add_student_begin(i, u, nm, att)

AddStudentCount == \E i \in 1..MaxRequests : add_student_count(i)

AddStudentAllocate == \E i \in 1..MaxRequests : add_student_allocate(i)

AddStudentInsert == \E i \in 1..MaxRequests : add_student_insert(i)

NextRace == AddStudentBegin \/ AddStudentCount \/ AddStudentAllocate \/ AddStudentInsert

SpecRace == InitRace /\ [][NextRace]_vars

ViewDatasets == {6, 7}

InitDatabaseView == InitDatabaseWith(ViewDatasets)

TeacherDashboard == \E u \in 1..Len(users), gender \in {"", "male"}, amin \in {NA, Num(9000), Bad} :
                        teacher_dashboard(u, gender, amin)

ExportStudents == \E u \in 1..Len(users) : export_students(u)

NextView == InitDatabaseView \/ seed_default_data \/ AssignTeacher \/ TeacherDashboard \/ ExportStudents

SpecView == Init /\ [][NextView]_vars

\* standardize_column_name applied to a raw column name, and to its own
\* result
RECURSIVE ColumnNames(_)
ColumnNames(n) ==
    IF n = 0 THEN {<<>>}
    ELSE LET shorter == ColumnNames(n - 1)
         IN  shorter \cup {Append(x, c) : x \in shorter, c \in ColumnChars}

InitColumns ==
    /\ db_exists = FALSE
    /\ users = <<>>
    /\ tsm = <<>>
    /\ students = {}
    /\ rng = random_seed
    /\ adds = 0
    /\ imported = FALSE
    /\ \E x \in ColumnNames(MaxColLen) : last = [NoOp EXCEPT !.op = "read_csv", !.resp = x]
    /\ reqs = NoRequests

StandardizeColumn ==
    /\ last.op \in {"read_csv", "standardize_column_name"}
    /\ last' = [NoOp EXCEPT !.op = "standardize_column_name", !.arg = last.resp,
                            !.resp = standardize_column_name(last.resp)]
    /\ UNCHANGED <<db_exists, users, tsm, students, rng, adds, imported, reqs>>

SpecColumns == InitColumns /\ [][StandardizeColumn]_vars

(***************************************************************************)
(* Properties.                                                             *)
(***************************************************************************)
ActiveFor(m, g, s) == {i \in 1..Len(m) : m[i].grade_level = g /\ m[i].section = s /\ m[i].is_active = 1}

ActiveOf(m, t) == {i \in 1..Len(m) : m[i].teacher_user_id = t /\ m[i].is_active = 1}

\* C1: no (grade_level, section) pair has more than one teacher_section_map
\* row with is_active = 1, in every state reached through seed_default_data,
\* admin_add_teacher and admin_assign_teacher.
C1_OneActivePerSection ==
    \A i \in 1..Len(tsm), j \in 1..Len(tsm) :
        (/\ tsm[i].is_active = 1 /\ tsm[j].is_active = 1
         /\ tsm[i].grade_level = tsm[j].grade_level
         /\ tsm[i].section = tsm[j].section) => i = j

\* two sections actively claimed and a deactivated row left by a
\* reassignment, right after an assignment
C1_Witness ==
    /\ last.op = "admin_assign_teacher" /\ last.out = "assigned"
    /\ \E i \in 1..Len(tsm), j \in 1..Len(tsm), k \in 1..Len(tsm) :
           /\ i # j /\ tsm[i].is_active = 1 /\ tsm[j].is_active = 1
           /\ tsm[k].is_active = 0

\* C2: admin_assign_teacher(T2, g, s) while another teacher T1 holds the
\* active mapping of (g, s) is rejected and leaves teacher_section_map as it
\* was: no row for T2, T1's row active, T2's rows with their flags.
C2_TakeoverRejected ==
    [][(/\ last'.op = "admin_assign_teacher"
        /\ \E i \in ActiveFor(tsm, last'.grade, last'.section) :
               tsm[i].teacher_user_id # last'.user)
       => (last'.out = "section_taken" /\ tsm' = tsm)]_vars

\* a rejected takeover by a teacher who has an active mapping of their own
C2_Witness ==
    /\ last.op = "admin_assign_teacher" /\ last.out = "section_taken"
    /\ \E i \in ActiveFor(tsm, last.grade, last.section) : tsm[i].teacher_user_id # last.user
    /\ ActiveOf(tsm, last.user) # {}

\* C3: a reassignment is all-or-nothing in the committed table: after
\* admin_assign_teacher(T, g, s) either nothing changed, or every mapping T
\* had is deactivated and the new active row (T, g, s) exists.
C3_ReassignAtomic ==
    [][last'.op = "admin_assign_teacher"
       => \/ tsm' = tsm
          \/ /\ Len(tsm') = Len(tsm) + 1
             /\ tsm'[Len(tsm')] = MapRow(last'.user, last'.grade, last'.section, 1)
             /\ \A i \in 1..Len(tsm) :
                    tsm'[i] = IF tsm[i].teacher_user_id = last'.user
                              THEN [tsm[i] EXCEPT !.is_active = 0] ELSE tsm[i]]_vars

\* the INSERT raised after the UPDATE had deactivated the teacher's mapping,
\* and the mapping is active in the committed table
C3_Witness ==
    /\ last.op = "admin_assign_teacher" /\ last.out = "error"
    /\ ActiveOf(tsm, last.user) # {}

\* C4 (the claim as stated): check_teacher_access is true exactly for an
\* admin and for a teacher whose active assignment equals the student's
\* (grade, section), for every grade and section admin_assign_teacher accepts.
C4_AccessExact ==
    \A u \in 1..Len(users), g \in GradeInputs, s \in SectionInputs :
        check_teacher_access(users[u].role, g, s, u, tsm)
            <=> \/ users[u].role = "admin"
                \/ /\ users[u].role = "teacher"
                   /\ \E i \in ActiveOf(tsm, u) : tsm[i].grade_level = g /\ tsm[i].section = s

\* C5 (the claim as stated): teacher_add_student is rejected without a
\* change at 60 students in the section, and with 59, a name and a valid
\* attendance it succeeds and the section holds 60.
C5_CapacityRule ==
    [][(last'.op = "teacher_add_student" /\ last'.out # "no_assignment")
       => LET n == SectionCount(students, last'.grade, last'.section)
          IN  /\ n >= SectionCapacity => (last'.out = "capacity" /\ students' = students)
              /\ (n = SectionCapacity - 1 /\ last'.name # "" /\ last'.att = "num")
                     => /\ last'.out = "added"
                        /\ SectionCount(students', last'.grade, last'.section) = SectionCapacity]_vars

\* C6: init_database with the database present and the force flag not set
\* leaves the students table as it is.
C6_SkipKeepsStudents ==
    [][(last'.op = "init_database" /\ db_exists /\ ~last'.force) => students' = students]_vars

\* a skipped run over imported and teacher-added students
C6_Witness ==
    /\ last.op = "init_database" /\ last.out = "skipped"
    /\ imported /\ adds > 0 /\ students # {}

\* C7: a forced import that follows a forced import of the same data set
\* leaves the students table as the first one left it.
C7_ForceTwiceSame ==
    [][(/\ last.op = "init_database" /\ last.force /\ last.out = "imported"
        /\ last'.op = "init_database" /\ last'.force /\ last'.out = "imported"
        /\ last'.df = last.df)
       => students' = students]_vars

\* the second of two forced imports of a data set with synthesized fields
C7_Witness ==
    /\ last.op = "init_database" /\ last.again
    /\ last.df = 2 /\ Cardinality(students) = Len(df_mixed)

\* C8: an import that fails (no CSV file, unreadable file, an exception
\* while synthesizing or inserting) leaves the students table as it was.
C8_FailedImportKeepsStudents ==
    [][(last'.op = "init_database" /\ last'.out \in {"no_csv", "failed"})
       => students' = students]_vars

\* a forced import whose INSERT raised after the DELETE and an INSERT had
\* run, over a table that held students
C8_Witness ==
    /\ last.op = "init_database" /\ last.out = "failed"
    /\ last.force /\ last.failAt = 2 /\ students # {}

\* C9 (the claim as stated): after a failed import with nothing imported
\* before, a run without the force flag and with a readable CSV file imports.
C9_RetryImports ==
    [][(/\ ~imported
        /\ last.op = "init_database" /\ last.out \in {"no_csv", "failed"}
        /\ last'.op = "init_database" /\ ~last'.force /\ last'.csv = "ok")
       => last'.out = "imported"]_vars

HasBadCell(df) ==
    \E i \in 1..Len(df) :
        \/ df[i].grade_level.k = "bad"
        \/ df[i].attendance_percent.k = "bad"
        \/ df[i].total_days.k = "bad"

\* C10 (the claim as stated): an import of a data set with an unparseable
\* field, with no storage failure, is not aborted and persists every row.
C10_BadFieldDegrades ==
    (/\ last.op = "init_database" /\ last.csv = "ok" /\ last.df # 0
     /\ last.failAt = 0 /\ HasBadCell(Datasets[last.df]))
    => /\ last.out = "imported"
       /\ Cardinality(students) >= Len(Datasets[last.df])

FinalScores(x) == [s \in 1..Len(Subjects) |-> x.exam_scores[s][Len(Exams)]]

\* C11 (the claim as stated): the stored final_performance_level of every
\* student is the tier of the stored final_average_score (Excellent from 80,
\* Good from 65, Average from 50, Needs Improvement below).
C11_TierOfStored ==
    \A x \in students :
        x.final_performance_level = PerformanceLevel(x.final_average_score, Len(Subjects))

\* C12 (the claim as stated): the stored final_total_score of every student
\* is exactly the sum of the six stored final scores, and the stored
\* final_average_score is final_total_score / 6 within 0.01.
C12_TotalsExact ==
    \A x \in students :
        /\ x.final_total_score = SumSeq(FinalScores(x))
        /\ x.final_average_score - x.final_total_score \in -60..60

\* C13 (the claim as stated): every student has days_present + days_absent
\* = total_days, an attendance_percent in 0..100 and days_present in
\* 0..total_days.
C13_AttendanceRange ==
    \A x \in students :
        /\ x.days_present + x.days_absent = x.total_days
        /\ x.attendance_percent \in 0..10000
        /\ x.days_present \in 0..x.total_days

C16_RejectedAddKeepsState ==
    [][(last'.op = "admin_add_teacher" /\ last'.out \in {"username_exists", "section_taken"})
       => (users' = users /\ tsm' = tsm)]_vars

\* C17 (the claim as stated): export_students emits all students for an
\* admin, the students of the teacher's active (grade, section) for a
\* teacher, and none for any other role or a teacher without an active
\* assignment.
C17_ExportScope ==
    last.op = "export_students"
    => last.resp.rows =
           {ExportRow(x) : x \in
               {y \in students :
                   \/ users[last.user].role = "admin"
                   \/ /\ users[last.user].role = "teacher"
                      /\ \E i \in ActiveOf(tsm, last.user) :
                             tsm[i].grade_level = y.grade_level /\ tsm[i].section = y.section}}

C19_FreePairAssignable ==
    [][(/\ last'.op = "admin_assign_teacher"
        /\ \A i \in ActiveFor(tsm, last'.grade, last'.section) :
               tsm[i].teacher_user_id = last'.user)
       => \E i \in ActiveOf(tsm', last'.user) :
              tsm'[i].grade_level = last'.grade /\ tsm'[i].section = last'.section]_vars

\* C20 (the claim as stated): after a successful forced import the students
\* table holds exactly the records synthesized from the data set, for every
\* data set, the one with zero rows included.
C20_ForceReplacesAll ==
    [][(last'.op = "init_database" /\ last'.force /\ last'.out = "imported")
       => students' = {students_data(last'.df).data[i] :
                          i \in 1..Len(students_data(last'.df).data)}]_vars

\* C22 (the claim as stated): when an operation has returned, normally or
\* with an error, no connection it opened is open.
\* C21: whatever the interleaving of the requests' steps (count check,
\* identifier allocation, insert and commit), no step takes a section that
\* holds at most 60 students to more than 60
C21_CapacityUnderInterleaving ==
    [][\A i \in 1..MaxRequests :
          SectionCount(students, reqs[i].teacher_grade, reqs[i].teacher_section) <= SectionCapacity
            => SectionCount(students', reqs[i].teacher_grade, reqs[i].teacher_section) <= SectionCapacity]_vars

C22_ConnectionsReleased == last.conns = 0

\* C23 (the claim as stated): the identifiers assigned to the rows of one
\* import are pairwise distinct, and an import of N rows persists N records.
C23_BatchIdsDistinct ==
    (last.op = "init_database" /\ last.out = "imported" /\ last.df # 0)
    => LET data == students_data(last.df).data
       IN  /\ \A i \in 1..Len(data), j \in 1..Len(data) :
                  i # j => data[i].student_id # data[j].student_id
           /\ Cardinality({x \in students : \E i \in 1..Len(data) : x = data[i]}) = Len(data)

\* C24 (the claim as stated): for every student with attendance_percent in
\* 0..100, days_present is total_days * attendance_percent / 100 rounded to
\* the nearest integer and days_absent is total_days - days_present.
C24_DaysPresentRounded ==
    \A x \in students :
        x.attendance_percent \in 0..10000
        => /\ x.days_present = RoundDiv(x.total_days * x.attendance_percent, 10000)
           /\ x.days_absent = x.total_days - x.days_present

\* C25 (the claim as stated): subject_avg_scores of teacher_dashboard is,
\* for every subject, the sum of the final scores of the selected students
\* divided by their number.
C25_SubjectMeanOverAll ==
    (/\ last.op = "teacher_dashboard" /\ last.resp.out = "ok"
     /\ last.resp.stats.total_students > 0)
    => LET st == last.resp.stats
       IN  \A s \in 1..Len(Subjects) :
               st.subject_avg_scores[s].num * st.total_students
                   = st.subject_avg_scores[s].den
                       * SumSeq([i \in 1..st.total_students |->
                                    st.students[i].exam_scores[s][Len(Exams)]])

\* C26 (the claim as stated): get_next_student_id returns an identifier no
\* stored student has, whatever the students table holds.
C26_NextIdFresh ==
    db_exists => \A x \in students : x.student_id # get_next_student_id(students)

====
